---- MODULE Spec2Model ----
(***************************************************************************)
(* Normal-mode vibrational free-energy calculators of i-PI                 *)
(* (ipi/engine/motion/nm.py): the NormalModeMover driver, the calculators'  *)
(* bind, and the one-shot VSCFMapper / VSCFSolver pair that communicate     *)
(* through files of the working directory.                                  *)
(*                                                                          *)
(* One behaviour is a sequence of program runs in one working directory:    *)
(* a NormalModeMover is constructed, bound, and stepped with increasing     *)
(* step indices until it exits; the files it wrote stay for the next run.   *)
(***************************************************************************)
EXTENDS Integers, Sequences, FiniteSets, TLC

VARIABLES
    cfg,     \* the input of the runs: system, dynamical matrix, options
    mode,    \* NormalModeMover.mode of the current run
    run,     \* where the current run is: "new", "bound", "mapping", ...
    err,     \* what ended the current run, "" while it is alive
    istep,   \* the step index the outer loop passes next
    imm,     \* the NormalModeMover fields that bind sets
    calc,    \* the fields of an IMF / PC calculator
    call,    \* what the last NormalModeMover.step(s) invoked
    inv,     \* the current calculator step: potential evaluations, files touched
    map,     \* VSCFMapper.step's local variables
    sol,     \* VSCFSolver.step's local variables
    files,   \* the working directory: file name -> content
    hist     \* history of the directory, for the properties

vars == <<cfg, mode, run, err, istep, imm, calc, call, inv, map, sol, files, hist>>

----------------------------------------------------------------------------
(* Bounds of the model *)

MaxAtoms == 3     \* systems of 1..MaxAtoms atoms
MaxBeads == 2     \* 1..MaxBeads replicas
MaxModes == 3     \* at most MaxModes eigenvalues away from zero
MaxStart == 1     \* first step index of a run: 0..MaxStart, or that much past 3*natoms
MaxSkew  == 1     \* anharmonicity of the model potential
NInt     == 2     \* integration grid points per axis (nint)
EThr     == 2     \* sampling threshold nevib * nmevib, in units of the first
                  \* harmonic displacement energy
MaxDensity == 2   \* density passes 0..MaxDensity of IMF.step are told apart
MaxBasis == 2     \* basis iterations 0..MaxBasis of a pass are told apart
MaxNbasis == 6    \* nbasis of the IMF calculator is 1 or MaxNbasis
Res == 16         \* the solver's energies are counted in 1 / Res of the
                  \* unit of the sampled potential

(* Program constants *)

BasisStep == 5    \* "max(1, self.nbasis - 5) + 5 * bs_iter"
PcFnmrms == 2     \* "self.fnmrms = 2.0" of PC.bind
W2Cut == 100      \* 1e-10, in units of 1e-12: |w2| above it is a vibration
VscfMinIter == 5     \* "if iiter > 5"
VscfCap == 200       \* "if iiter > 200"
ManifoldCap == 1000  \* "if len(sred) > 1e3"

Modes == {"imf", "pc", "vscfmapper", "vscfsolver"}
Asrs  == {"none", "crystal", "poly"}
\* the eigenvalues of the inputs, in the units of W2Cut
W2Pos == 4 * W2Cut
W2Neg == 0 - W2Pos

Abs(x) == IF x < 0 THEN 0 - x ELSE x
Min(a, b) == IF a < b THEN a ELSE b
Max(a, b) == IF a < b THEN b ELSE a

----------------------------------------------------------------------------
(* The input *)

\* np.sqrt(w2) as an energy of the solver
Omega(w2) == Res * (w2 \div W2Cut)

\* the states of n harmonic modes of one frequency that hold at most q quanta
RECURSIVE Simplex(_, _)
Simplex(q, n) ==
    IF n = 0 THEN 1 ELSE IF q = 0 THEN 1 ELSE Simplex(q, n - 1) + Simplex(q - 1, n)

\* The larger nkbt * temp of the inputs admits MaxQuanta quanta: the fewest
\* with which the largest systems of the model pass ManifoldCap states.
MaxQuanta ==
    CHOOSE q \in 1..ManifoldCap :
        /\ Simplex(q, MaxModes) > ManifoldCap
        /\ \A p \in 1..(q - 1) : ~(Simplex(p, MaxModes) > ManifoldCap)

\* nkbt * temp of the inputs: a little more than one quantum, or MaxQuanta
NkbtLow == 3 * Omega(W2Pos)
NkbtHigh == (2 * MaxQuanta + 1) * Omega(W2Pos)

\* nbasis
NBasis == MaxQuanta + 2

\* The options VSCFSolver.bind takes from the mover: athresh in units of
\* 1 / (Res * Res), nkbt * temp, mptwo.
NoOptions == [athresh |-> 0, nkbt |-> 0, mptwo |-> FALSE]
SolverOptions ==
    { [athresh |-> 1, nkbt |-> NkbtLow, mptwo |-> FALSE],
      [athresh |-> 0, nkbt |-> NkbtLow, mptwo |-> FALSE],
      [athresh |-> 1, nkbt |-> NkbtLow, mptwo |-> TRUE],
      [athresh |-> 1, nkbt |-> NkbtHigh, mptwo |-> TRUE] }

Dof(natoms) == 3 * natoms

\* What np.linalg.eigh returns for the projected matrix: eigenvalues in
\* ascending order, a of them negative, p positive, the rest zero.
Spectrum(n, a, p) ==
    [i \in 0..(n - 1) |-> IF i < a THEN W2Neg ELSE IF i >= n - p THEN W2Pos ELSE 0]

\* The zero eigenvalues an ASR projection pins.
AsrZeros(asr) == IF asr = "crystal" THEN 3 ELSE IF asr = "poly" THEN 6 ELSE 0

StartSteps(natoms) ==
    (0..MaxStart) \cup {3 * natoms + k : k \in 0..MaxStart}

\* A dynamical matrix that binds: its eigenvalues are the input.
GoodConfigs ==
    { [natoms |-> n, nbeads |-> 1, asr |-> s, dynsize |-> Dof(n) * Dof(n),
       eig |-> Spectrum(Dof(n), a, p), threebody |-> tb, skew |-> k] :
        n \in 1..MaxAtoms, s \in Asrs, a \in 0..MaxModes, p \in 0..MaxModes,
        tb \in BOOLEAN, k \in 0..MaxSkew }

Feasible(c) ==
    LET nonzero == Cardinality({i \in DOMAIN c.eig : c.eig[i] # 0})
    IN  /\ nonzero <= MaxModes
        /\ nonzero <= Dof(c.natoms) - Min(AsrZeros(c.asr), Dof(c.natoms))
        \* the "poly" projection assumes a non-linear polyatomic molecule
        /\ c.asr = "poly" => c.natoms >= 3

\* No matrix (size 0), a matrix of the wrong size, or several replicas: the
\* eigenvalues are those of the zero matrix, if bind gets as far as eigh.
OtherConfigsOf(n) ==
    { [natoms |-> n, nbeads |-> b, asr |-> s, dynsize |-> d,
       eig |-> Spectrum(Dof(n), 0, 0), threebody |-> FALSE, skew |-> 0] :
        b \in 1..MaxBeads, s \in {"none", "crystal"},
        d \in {0, Dof(n), Dof(n) * Dof(n), Dof(n) * Dof(n) + 1} }

OtherConfigs == UNION {OtherConfigsOf(n) : n \in 1..MaxAtoms}

Configs ==
    {c \in GoodConfigs : Feasible(c)}
    \cup {c \in OtherConfigs : c.nbeads > 1 \/ c.dynsize # Dof(c.natoms) * Dof(c.natoms)}


----------------------------------------------------------------------------
(* NormalModeMover.__init__ and bind *)

\* The fields of a NormalModeMover before bind. nz is set to 0.
NewMover(c) ==
    [motionbind |-> FALSE, calcbind |-> FALSE, asrcalled |-> FALSE, eigh |-> FALSE,
     dynmatrix |-> [size |-> c.dynsize, shape |-> <<c.dynsize>>, data |-> "input",
                    projected |-> 0],
     nz |-> 0, w2 |-> <<>>, w |-> <<>>, opt |-> NoOptions]

\* the locals of IMF.step while it refines: density pass it, basis iteration
\* bs, the displacements of the pass in each direction, and qlist
NoLoop == [it |-> 0, bs |-> 0, tick |-> FALSE, pos |-> <<>>, neg |-> <<>>,
           qlist |-> <<>>, sizes |-> <<>>, tests |-> <<>>]
\* the four totals: the modes whose terms were added to each
NoTotals == [anhar_free |-> {}, har_free |-> {}, anhar_internal |-> {},
             har_internal |-> {}]
NewCalc == [treated |-> {}, out |-> {}, terminated |-> FALSE, totals |-> NoTotals,
            loop |-> NoLoop, nbasis |-> 0, fnmrms |-> 0, walked |-> <<>>,
            qlist |-> <<>>, skipped |-> {}]

\* nbasis as IMF.bind takes it from the mover
IMFBases == {1, MaxNbasis}
\* fnmrms as the mover was configured with it; the potential service counts
\* displacements in steps of this fraction of nmrms
Fractions == {1, PcFnmrms}
NoCall == [s |-> 0 - 1, step |-> FALSE, terminate |-> FALSE, exit |-> FALSE]
NewInv == [evals |-> 0, touched |-> {}]
IdleMap == [pc |-> "idle", k |-> 0, sub |-> 0, nptsmin |-> <<>>, nptsmax |-> <<>>,
            vis |-> <<>>]
IdleSol == [status |-> "idle"]

\* bind raises for more than one replica.
\* variant: no replica count is rejected
BeadsRejectedNever(nbeads) == FALSE

BeadsRejected(nbeads) == nbeads > 1

\* IMF.bind, the dynamical matrix: [ok, dm]. qsize is beads.q.size.
\* variant: a matrix of any other size is replaced by zeros, as the empty one is
DynmatSizedLenient(dm, qsize) ==
    IF dm.size # qsize * qsize
    THEN [ok |-> TRUE,
          dm |-> [size |-> qsize * qsize, shape |-> <<qsize, qsize>>,
                  data |-> "zeros", projected |-> 0]]
    ELSE [ok |-> TRUE, dm |-> [dm EXCEPT !.shape = <<qsize, qsize>>]]

DynmatSized(dm, qsize) ==
    IF dm.size # qsize * qsize
    THEN IF dm.size = 0
         THEN [ok |-> TRUE,
               dm |-> [size |-> qsize * qsize, shape |-> <<qsize, qsize>>,
                       data |-> "zeros", projected |-> 0]]
         ELSE [ok |-> FALSE, dm |-> dm]
    ELSE [ok |-> TRUE, dm |-> [dm EXCEPT !.shape = <<qsize, qsize>>]]

\* NormalModeMover.apply_asr: the matrix returned and the mover's nz after it.
\* variant: the crystal branch counts six zero modes
apply_asr_six(asr, dm, nz) ==
    IF asr = "none" THEN [dm |-> dm, nz |-> nz]
    ELSE [dm |-> [dm EXCEPT !.projected = IF asr = "crystal" THEN 3 ELSE 6],
          nz |-> 6]

apply_asr(asr, dm, nz) ==
    IF asr = "none" THEN [dm |-> dm, nz |-> nz]
    ELSE IF asr = "crystal" THEN [dm |-> [dm EXCEPT !.projected = 3], nz |-> 3]
    ELSE [dm |-> [dm EXCEPT !.projected = 6], nz |-> 6]

\* np.linalg.eigh of the projected matrix: the zero matrix has zero
\* eigenvalues, an input matrix those the input says.
Eigenvalues(dm, c) ==
    IF dm.data = "zeros" THEN Spectrum(dm.shape[1], 0, 0) ELSE c.eig

\* np.sqrt of an eigenvalue: a frequency sqrt(sq), or NaN.
NaN == [nan |-> TRUE, sq |-> 0]
Sqrt(x) == IF x < 0 THEN NaN ELSE [nan |-> FALSE, sq |-> x]

\* w = w2 * 0; w[nz:] = sqrt(w2[nz:])
Frequencies(w2, nz) ==
    [i \in DOMAIN w2 |-> IF i < nz THEN Sqrt(0) ELSE Sqrt(w2[i])]

\* IMF.bind (PC, VSCFMapper and VSCFSolver call it first): [ok, imm].
IMFBind(c, m) ==
    LET sized == DynmatSized(m.dynmatrix, c.nbeads * 3 * c.natoms)
        m1 == [m EXCEPT !.calcbind = TRUE]
    IN  IF ~sized.ok
        THEN [ok |-> FALSE, imm |-> m1]
        ELSE LET a == apply_asr(c.asr, sized.dm, m1.nz)
                 w2 == Eigenvalues(a.dm, c)
             IN  [ok |-> TRUE,
                  imm |-> [m1 EXCEPT !.dynmatrix = a.dm, !.asrcalled = TRUE,
                                     !.eigh = TRUE, !.nz = a.nz, !.w2 = w2,
                                     !.w = Frequencies(w2, a.nz)]]

MoverBind ==
    /\ run = "new"
    /\ LET m0 == [imm EXCEPT !.motionbind = TRUE]
       IN  IF BeadsRejected(cfg.nbeads)
           THEN /\ imm' = m0
                /\ run' = "error"
                /\ err' = "ValueError: beads"
           ELSE LET r == IMFBind(cfg, m0)
                IN  /\ \E o \in (IF r.ok /\ mode = "vscfsolver" THEN SolverOptions
                                 ELSE {NoOptions}) :
                          imm' = [r.imm EXCEPT !.opt = o]
                    /\ run' = IF r.ok THEN "bound" ELSE "error"
                    /\ err' = IF r.ok THEN "" ELSE "ValueError: dynmat"
    /\ \E n \in (IF mode = "imf" /\ ~BeadsRejected(cfg.nbeads) THEN IMFBases ELSE {0}),
          f \in (IF mode = "pc" /\ ~BeadsRejected(cfg.nbeads) THEN Fractions ELSE {0}) :
          calc' = [NewCalc EXCEPT !.nbasis = n, !.fnmrms = f]
    /\ UNCHANGED <<cfg, mode, istep, call, inv, map, sol, files, hist>>

----------------------------------------------------------------------------
(* The working directory and the potential service *)

Exists(f, name) == name \in DOMAIN f
Put(f, name, content) ==
    [x \in DOMAIN f \cup {name} |-> IF x = name THEN content ELSE f[x]]

\* np.loadtxt of a one-column file: one line comes back as a 0-d array.
LoadTxtVector(lines) ==
    [ndim |-> IF Len(lines) = 1 THEN 0 ELSE 1, data |-> lines]

\* The potential service along mode inm at k steps of fnmrms * nmrms, less the
\* potential at equilibrium: harmonic, and skewed along the even modes.
Pot1(c, inm, k) == k * k + (IF inm % 2 = 0 THEN c.skew ELSE 0) * k

Reverse(s) == [x \in 1..Len(s) |-> s[Len(s) + 1 - x]]

RECURSIVE SortedSeq(_)
SortedSeq(S) ==
    IF S = {} THEN <<>>
    ELSE LET m == CHOOSE x \in S : \A y \in S : x <= y
         IN  <<m>> \o SortedSeq(S \ {m})

\* softexit.trigger(message): the run is stopped there and the call does not
\* return to the code after it.
softexit_trigger(message) == [run |-> "softexit", err |-> message]

----------------------------------------------------------------------------
(* VSCFMapper.step *)

\* variant: the one-shot test lets step 1 through
OneShotOverLate(s) == s > 1

\* "if step > 0: softexit" of VSCFMapper.step and VSCFSolver.step
OneShotOver(s) == s > 0

\* The modes VSCFMapper includes, in the order of its loop.
MapperModes(w2) == SortedSeq({i \in DOMAIN w2 : Abs(w2[i]) > W2Cut})

RECURSIVE PairsFrom(_, _, _)
PairsFrom(ms, x, y) ==
    IF x > Len(ms) THEN <<>>
    ELSE IF y > Len(ms) THEN PairsFrom(ms, x + 1, x + 2)
    ELSE <<(<<ms[x], ms[y]>>)>> \o PairsFrom(ms, x, y + 1)

\* the pairs jnm > inm, in loop order
Pairs(ms) == PairsFrom(ms, 1, 2)

RECURSIVE TriplesFrom(_, _, _, _)
TriplesFrom(ms, x, y, z) ==
    IF x > Len(ms) THEN <<>>
    ELSE IF y > Len(ms) THEN TriplesFrom(ms, x + 1, x + 2, x + 3)
    ELSE IF z > Len(ms) THEN TriplesFrom(ms, x, y + 1, y + 2)
    ELSE <<(<<ms[x], ms[y], ms[z]>>)>> \o TriplesFrom(ms, x, y, z + 1)

\* the triples knm > jnm > inm, in loop order
Triples(ms) == TriplesFrom(ms, 1, 2, 3)

\* One outward walk of the sampling-range loop: the potentials appended to vi
\* up to the bailout and the two extra points, and the last counter.
RECURSIVE Walk(_, _, _, _, _)
Walk(c, inm, dir, counter, vi) ==
    LET dv == Pot1(c, inm, counter)
    IN  IF EThr < Abs(dv)
        THEN [vi |-> vi \o <<dv, Pot1(c, inm, counter + dir),
                             Pot1(c, inm, counter + 2 * dir)>>,
              counter |-> counter]
        ELSE Walk(c, inm, dir, counter + dir, Append(vi, dv))

\* The 1D slice of mode inm: [vi, nptsmin, nptsmax, evals]
Slice(c, inm) ==
    LET neg == Walk(c, inm, 0 - 1, 0 - 1, <<0>>)
        pos == Walk(c, inm, 1, 1, Reverse(neg.vi))
    IN  [vi |-> pos.vi, nptsmin |-> 0 - neg.counter, nptsmax |-> pos.counter,
         evals |-> (0 - neg.counter) + 2 + pos.counter + 2]

\* A point of the plane of two modes: grid index a of mode i, b of mode j.
Point2(i, a, j, b) == [m \in {i, j} |-> IF m = i THEN a ELSE b]

\* vigrid written to vindep.<inm>.dat: the fit it is cut from, on the
\* integration grid from -nptsmin to nptsmax.
IndepCurve(inm, fit, m) ==
    [mode |-> inm, fit |-> fit, lo |-> m.nptsmin[inm], hi |-> m.nptsmax[inm]]

\* vijgrid written to vcoupled.<i>.<j>.dat: row ijnm, column iinm hold the
\* correction at (igrid[iinm], jgrid[ijnm]).
\* val: what is left of the fitted potential at the point once the slices
\* along the axes are taken off; the modes of the model potential are coupled
\* as far as it is skewed.
Pot2(c, a, b) == c.skew * a * b
Pot3(c) == c.skew

CouplingGrid(c, i, j, fit) ==
    [ijnm \in 1..NInt |->
        [iinm \in 1..NInt |-> [fit |-> fit, pt |-> Point2(i, iinm, j, ijnm),
                               val |-> Pot2(c, iinm, ijnm)]]]

TripletGrid(c, t) == [fit |-> t, val |-> Pot3(c)]

\* variant: nothing is taken from the directory
CachedNever(f, potfile) == FALSE

\* variant: the first 1D slice of the pair / triple stands for its map
CachedBySlice(f, potfile) == Exists(f, <<"vindep", potfile[2]>>)

\* whether the map of the pair / triple is taken from the directory
Cached(f, potfile) == Exists(f, potfile)

Npts(m, inm) == m.nptsmin[inm] + m.nptsmax[inm] + 1

\* variant: the grid of a pair starts at -nptsmin, without the two extra points
DisplacedUnpadded(m, inm, i) == i - m.nptsmin[inm]

\* "(-nptsmin[inm]+i-2)": the displacement of grid index i, from 0, in steps
Displaced(m, inm, i) == i - 2 - m.nptsmin[inm]

\* the potential service at displacements a and b of two modes, less the
\* potential at equilibrium
PotPair(c, inm, a, jnm, b) == Pot1(c, inm, a) + Pot1(c, jnm, b) + Pot2(c, a, b)

\* rinm, rjnm: the place of a mode in inms
Rank(ms, inm) == CHOOSE x \in 1..Len(ms) : ms[x] = inm

\* vtots of the pair p at grid indices i, j from 0: the value, and whether
\* the potential service was called for it
Vtots(c, m, ms, p, i, j) ==
    IF Displaced(m, p[1], i) = 0
    THEN [val |-> m.vis[Rank(ms, p[2])][j + 1], called |-> FALSE]
    ELSE IF Displaced(m, p[2], j) = 0
    THEN [val |-> m.vis[Rank(ms, p[1])][i + 1], called |-> FALSE]
    ELSE [val |-> PotPair(c, p[1], Displaced(m, p[1], i), p[2], Displaced(m, p[2], j)),
          called |-> TRUE]

\* "for i in range(npts[inm]+4): for j in range(npts[jnm]+4)"
PairGrid(m, p) == (0..(Npts(m, p[1]) + 3)) \X (0..(Npts(m, p[2]) + 3))

\* potential evaluations of one pair: the grid points off both axes
PairEvals(m, p) ==
    Cardinality({ij \in PairGrid(m, p) :
                    Displaced(m, p[1], ij[1]) # 0 /\ Displaced(m, p[2], ij[2]) # 0})

\* potential evaluations of one triple: every grid point
TripleEvals(m, t) == (Npts(m, t[1]) + 4) * (Npts(m, t[2]) + 4) * (Npts(m, t[3]) + 4)

Touch(v, names) == [v EXCEPT !.touched = @ \cup names]

\* One write of the pair loop. sub 0: vindep.<i> unless there; 1: vindep.<j>
\* unless there; 2: vcoupled.<i>.<j>.
PairStep(c, m, f, v, p) ==
    LET i == p[1]
        j == p[2]
        v1 == IF m.sub = 0 THEN [v EXCEPT !.evals = @ + PairEvals(m, p)] ELSE v
        name == IF m.sub = 0 THEN <<"vindep", i>>
                ELSE IF m.sub = 1 THEN <<"vindep", j>> ELSE <<"vcoupled", i, j>>
        content == IF m.sub = 0 THEN IndepCurve(i, p, m)
                   ELSE IF m.sub = 1 THEN IndepCurve(j, p, m)
                   ELSE CouplingGrid(c, i, j, p)
        skip == m.sub < 2 /\ Exists(f, name)
    IN  [map |-> IF m.sub = 2 THEN [m EXCEPT !.k = @ + 1, !.sub = 0]
                 ELSE [m EXCEPT !.sub = @ + 1],
         files |-> IF skip THEN f ELSE Put(f, name, content),
         inv |-> IF skip THEN v1 ELSE Touch(v1, {name}),
         out |-> "more"]

TripleNames(t) ==
    << <<"vindep", t[1]>>, <<"vindep", t[2]>>, <<"vindep", t[3]>>,
       <<"vcoupled", t[1], t[2]>>, <<"vcoupled", t[1], t[3]>>,
       <<"vcoupled", t[2], t[3]>>, <<"vtriplet", t[1], t[2], t[3]>> >>

\* One write of the triple loop: the three slices, the three planes, the triple.
TripleStep(c, m, f, v, t) ==
    LET v1 == IF m.sub = 0 THEN [v EXCEPT !.evals = @ + TripleEvals(m, t)] ELSE v
        name == TripleNames(t)[m.sub + 1]
        content == IF m.sub < 3 THEN IndepCurve(t[m.sub + 1], t, m)
                   ELSE IF m.sub = 3 THEN CouplingGrid(c, t[1], t[2], t)
                   ELSE IF m.sub = 4 THEN CouplingGrid(c, t[1], t[3], t)
                   ELSE IF m.sub = 5 THEN CouplingGrid(c, t[2], t[3], t)
                   ELSE TripletGrid(c, t)
    IN  [map |-> IF m.sub = 6 THEN [m EXCEPT !.k = @ + 1, !.sub = 0]
                 ELSE [m EXCEPT !.sub = @ + 1],
         files |-> Put(f, name, content),
         inv |-> Touch(v1, {name}),
         out |-> "more"]

\* VSCFMapper.step from one file write to the next. m: the local variables,
\* f: the directory, v: the evaluations and files touched so far.
\* out: "more", "done" (step returns), "hang" (a loop that cannot end),
\* "ioerror" (np.loadtxt of a file that is not there).
MapStep(c, w2, m, f, v) ==
    LET ms == MapperModes(w2)
        n == Len(ms)
        items == IF c.threebody THEN Triples(ms) ELSE Pairs(ms)
        zeros == [i \in DOMAIN w2 |-> 0]
    IN  CASE m.pc = "potoffset" ->
               [map |-> [m EXCEPT !.pc = "modes"],
                files |-> Put(f, <<"potoffset">>, "v0"),
                inv |-> Touch(v, {<<"potoffset">>}), out |-> "more"]
          [] m.pc = "modes" ->
               [map |-> [m EXCEPT !.pc = "range"],
                files |-> Put(f, <<"modes">>, ms),
                inv |-> Touch(v, {<<"modes">>}), out |-> "more"]
          [] m.pc = "range" ->
               IF Exists(f, <<"nptsmax">>)
               THEN LET reads == {<<"nptsmin">>, <<"nptsmax">>}
                                 \cup {<<"vindeps", ms[x]>> : x \in 1..n}
                    IN  IF reads \subseteq DOMAIN f
                        THEN [map |-> [m EXCEPT !.pc = "couple", !.k = 1, !.sub = 0,
                                          !.nptsmin = f[<<"nptsmin">>],
                                          !.nptsmax = f[<<"nptsmax">>],
                                          !.vis = [x \in 1..n |-> f[<<"vindeps", ms[x]>>]]],
                              files |-> f, inv |-> Touch(v, reads), out |-> "more"]
                        ELSE [map |-> m, files |-> f, inv |-> v, out |-> "ioerror"]
               ELSE [map |-> [m EXCEPT !.pc = IF n = 0 THEN "nptsmin" ELSE "sample",
                                 !.k = 1, !.nptsmin = zeros, !.nptsmax = zeros,
                                 !.vis = <<>>],
                     files |-> f, inv |-> v, out |-> "more"]
          [] m.pc = "sample" ->
               LET inm == ms[m.k]
                   sl == Slice(c, inm)
               IN  IF w2[inm] < 0
                   \* nmrms and nmevib are NaN: the bailout test is never true
                   THEN [map |-> m, files |-> f, inv |-> v, out |-> "hang"]
                   ELSE [map |-> [m EXCEPT !.pc = IF m.k = n THEN "nptsmin" ELSE "sample",
                                     !.k = @ + 1,
                                     !.nptsmin[inm] = sl.nptsmin,
                                     !.nptsmax[inm] = sl.nptsmax,
                                     !.vis = Append(@, sl.vi)],
                         files |-> Put(f, <<"vindeps", inm>>, sl.vi),
                         inv |-> Touch([v EXCEPT !.evals = @ + sl.evals],
                                       {<<"vindeps", inm>>}),
                         out |-> "more"]
          [] m.pc = "nptsmin" ->
               [map |-> [m EXCEPT !.pc = "nptsmax"],
                files |-> Put(f, <<"nptsmin">>, m.nptsmin),
                inv |-> Touch(v, {<<"nptsmin">>}), out |-> "more"]
          [] m.pc = "nptsmax" ->
               [map |-> [m EXCEPT !.pc = "couple", !.k = 1, !.sub = 0],
                files |-> Put(f, <<"nptsmax">>, m.nptsmax),
                inv |-> Touch(v, {<<"nptsmax">>}), out |-> "more"]
          [] m.pc = "couple" ->
               IF m.k > Len(items)
               THEN [map |-> [m EXCEPT !.pc = "done"], files |-> f, inv |-> v,
                     out |-> "done"]
               ELSE LET it == items[m.k]
                        potfile == IF c.threebody
                                   THEN <<"vtriplet", it[1], it[2], it[3]>>
                                   ELSE <<"vcoupled", it[1], it[2]>>
                    IN  IF m.sub = 0 /\ Cached(f, potfile)
                        THEN [map |-> [m EXCEPT !.k = @ + 1], files |-> f, inv |-> v,
                              out |-> "more"]
                        ELSE IF c.threebody THEN TripleStep(c, m, f, v, it)
                        ELSE PairStep(c, m, f, v, it)

----------------------------------------------------------------------------
(* VSCFSolver.step *)

ZeroCurve == [mode |-> 0 - 1, fit |-> <<>>, lo |-> 0, hi |-> 0]
ZeroValue == [fit |-> <<>>, pt |-> <<>>, val |-> 0]
ZeroTriplet == [fit |-> <<>>, val |-> 0]
ZeroGrid == [r \in 1..NInt |-> [q \in 1..NInt |-> ZeroValue]]

Transpose(g) == [r \in 1..NInt |-> [q \in 1..NInt |-> g[q][r]]]

\* igrid[inm], vigrid[inm]: zeros, filled from vindep.<inm>.dat if it is there
LoadIndep(f, inm) ==
    IF Exists(f, <<"vindep", inm>>) THEN f[<<"vindep", inm>>] ELSE ZeroCurve

\* vijgrid[inm][jnm] for jnm > inm: zeros, filled from the file if it is there
LoadCoupled(f, inm, jnm) ==
    IF Exists(f, <<"vcoupled", inm, jnm>>) THEN f[<<"vcoupled", inm, jnm>>]
    ELSE ZeroGrid

\* variant: the grid of the mirrored pair is used as stored
MirrorAsStored(g) == g

\* vijgrid[inm][jnm] for jnm <= inm
MirrorCoupled(g) == Transpose(g)

\* vijgrid after the loop over the modes read from modes.dat
LoadVij(f, ms) ==
    LET S == {ms[x] : x \in 1..Len(ms)}
    IN  [pr \in S \X S |->
            IF pr[2] > pr[1] THEN LoadCoupled(f, pr[1], pr[2])
            ELSE IF pr[2] < pr[1] THEN MirrorCoupled(LoadCoupled(f, pr[2], pr[1]))
            ELSE MirrorCoupled(ZeroGrid)]

\* vijkgrid[inm][jnm][knm] for knm > jnm > inm
LoadVijk(f, ms) ==
    LET ts == Triples(ms)
    IN  [x \in 1..Len(ts) |->
            IF Exists(f, <<"vtriplet", ts[x][1], ts[x][2], ts[x][3]>>)
            THEN f[<<"vtriplet", ts[x][1], ts[x][2], ts[x][3]>>]
            ELSE ZeroTriplet]

\* variant: no file is looked for
FirstAbsentIgnored(f, names) == 0

\* the first file of the sequence that is not there, 0 if all are
FirstAbsent(f, names) ==
    IF \E x \in 1..Len(names) : ~Exists(f, names[x])
    THEN CHOOSE x \in 1..Len(names) :
            /\ ~Exists(f, names[x])
            /\ \A y \in 1..(x - 1) : Exists(f, names[y])
    ELSE 0

IndepNames(ms) == [x \in 1..Len(ms) |-> <<"vindep", ms[x]>>]
CoupledNames(ms) ==
    LET ps == Pairs(ms) IN [x \in 1..Len(ps) |-> <<"vcoupled", ps[x][1], ps[x][2]>>]
TripletNames(ms) ==
    LET ts == Triples(ms)
    IN  [x \in 1..Len(ts) |-> <<"vtriplet", ts[x][1], ts[x][2], ts[x][3]>>]

\* The files the solver reads on its way to the VSCF loop, in that order, up to
\* the first that stops it: [status, msg, reads]. status "ok", "softexit"
\* (softexit.trigger) or "error" (an exception).
SolverLoad(f, threebody) ==
    IF ~Exists(f, <<"modes">>)
    THEN [status |-> softexit_trigger("modes").run, msg |-> "modes", reads |-> {}]
    ELSE
    LET inms == LoadTxtVector(f[<<"modes">>])
        r1 == {<<"modes">>}
    IN
    IF ~Exists(f, <<"nptsmin">>)
    THEN [status |-> softexit_trigger("nptsmin").run, msg |-> "nptsmin", reads |-> r1]
    ELSE IF ~Exists(f, <<"nptsmax">>)
    THEN [status |-> "error", msg |-> "IOError: nptsmax",
          reads |-> r1 \cup {<<"nptsmin">>}]
    ELSE
    LET r2 == r1 \cup {<<"nptsmin">>, <<"nptsmax">>}
    IN
    IF ~Exists(f, <<"potoffset">>)
    THEN [status |-> softexit_trigger("potoffset").run, msg |-> "potoffset", reads |-> r2]
    ELSE IF inms.ndim = 0
    THEN [status |-> "error", msg |-> "TypeError: iteration over a 0-d array",
          reads |-> r2 \cup {<<"potoffset">>}]
    ELSE
    LET ms == inms.data
        r3 == r2 \cup {<<"potoffset">>}
        vi == IndepNames(ms)
        vij == CoupledNames(ms)
        vijk == TripletNames(ms)
        Upto(names, x) == {names[y] : y \in 1..(x - 1)}
        All(names) == {names[y] : y \in 1..Len(names)}
    IN
    IF FirstAbsent(f, vi) # 0
    THEN [status |-> softexit_trigger("vindep").run, msg |-> "vindep",
          reads |-> r3 \cup Upto(vi, FirstAbsent(f, vi))]
    ELSE IF FirstAbsent(f, vij) # 0
    THEN [status |-> softexit_trigger("vcoupled").run, msg |-> "vcoupled",
          reads |-> r3 \cup All(vi) \cup Upto(vij, FirstAbsent(f, vij))]
    ELSE IF threebody /\ FirstAbsent(f, vijk) # 0
    THEN [status |-> softexit_trigger("vtriplet").run, msg |-> "vtriplet",
          reads |-> r3 \cup All(vi) \cup All(vij) \cup Upto(vijk, FirstAbsent(f, vijk))]
    ELSE [status |-> "ok", msg |-> "",
          reads |-> r3 \cup All(vi) \cup All(vij)
                    \cup (IF threebody THEN All(vijk) ELSE {})]

\* The files the solver writes on the way: harfreqs.dat and the densities.
SolverOutputs(ms) ==
    {<<"harfreqs">>}
    \cup {<<"rho_indep", ms[x]>> : x \in 1..Len(ms)}
    \cup {<<"rho_mft", ms[x]>> : x \in 1..Len(ms)}

\* The coupling that enters vmft[inm] at its grid point a with the density of
\* jnm at its grid point b: np.dot(vijgrid[inm][jnm].T, rhoigrid[jnm])[a]
Contracted(vijgrid, inm, jnm, a, b) == Transpose(vijgrid[<<inm, jnm>>])[a][b]

(* The numbers of the solver. A potential curve on the integration grid
   stands as one number, its mean over the grid; the thermal densities are
   uniform on the grid; the levels of a mode are those of first-order
   perturbation theory; a free energy is its low-temperature limit. *)

RECURSIVE Sum(_, _)
Sum(fn, S) ==
    IF S = {} THEN 0
    ELSE LET x == CHOOSE y \in S : TRUE IN fn[x] + Sum(fn, S \ {x})

\* vigrid[inm]: the anharmonic part of the slice, from the file's curve
Field(curve) == Res * (curve.hi - curve.lo)

\* the harmonic diagonal "0.5 * (ibasis + 0.5) * np.sqrt(w2)", doubled by "h += h.T"
HarmonicLevel(ib, om) == (2 * ib + 1) * om

\* np.linalg.eigh(h) with h from vigrid[inm]: evals[inm]
EighIndep(om, v) == [ib \in 0..(NBasis - 1) |-> HarmonicLevel(ib, om) + (ib + 1) * v]

\* variant: the diagonal of the mean-field Hamiltonian is not halved
EighMftUnhalved(om, v) ==
    [ib \in 0..(NBasis - 1) |-> 2 * HarmonicLevel(ib, om) + (ib + 1) * v]

\* np.linalg.eigh(h) with h from vmft[inm]: evalsvscf[inm]
EighMft(om, v) == [ib \in 0..(NBasis - 1) |-> HarmonicLevel(ib, om) + (ib + 1) * v]

\* evals after the loop over inms, which breaks at the first mode below the cutoff
IndepEvals(ms, w2, vi) ==
    LET stop == {x \in 1..Len(ms) : Abs(w2[ms[x]]) < W2Cut}
        upto == IF stop = {} THEN Len(ms) ELSE (CHOOSE x \in stop : \A y \in stop : x <= y) - 1
    IN  [x \in 1..Len(ms) |->
            IF x <= upto THEN EighIndep(Omega(w2[ms[x]]), vi[x])
            ELSE [ib \in 0..(NBasis - 1) |-> 0]]

\* nmbasis[x]: the levels of the mode within nkbt * temp of its lowest
NmBasis(ev, nkbt) == {ib \in 0..(NBasis - 1) : ev[ib] - ev[0] < nkbt}

\* evaltotindep / evaltotcoupled of state s, over its first x modes
RECURSIVE StateEnergy(_, _, _)
StateEnergy(evals, s, x) ==
    IF x = 0 THEN 0 ELSE evals[x][s[x]] + StateEnergy(evals, s, x - 1)

\* "e": the excitation energy of state s of the first Len(s) modes
Excitation(evals, s) ==
    StateEnergy(evals, s, Len(s)) - StateEnergy(evals, [x \in 1..Len(s) |-> 0], Len(s))

\* sred as each mode is added: the states of the first x modes, x = 1..n,
\* that lie within nkbt * temp of the lowest
\* variant: a state on the threshold is left out
LeftOutFrom(e, nkbt) == e >= nkbt

\* "if e > self.nkbt * dstrip(self.imm.temp): continue"
LeftOut(e, nkbt) == e > nkbt

RECURSIVE Manifolds(_, _, _)
Manifolds(evals, nkbt, x) ==
    IF x = 1 THEN << {<<ib>> : ib \in NmBasis(evals[1], nkbt)} >>
    ELSE LET upto == Manifolds(evals, nkbt, x - 1)
             Kept(s) == LET e == Excitation(evals, s)
                        IN  {ib \in NmBasis(evals[x], nkbt) :
                                ~LeftOut(e + evals[x][ib] - evals[x][0], nkbt)}
         IN  Append(upto, UNION {{Append(s, ib) : ib \in Kept(s)} : s \in upto[x - 1]})

Lowest(S) == CHOOSE e \in S : \A d \in S : e <= d

\* aindep and acoupled: over the states with mptwo, else mode by mode
FreeEnergy(evals, states, mptwo) ==
    IF mptwo THEN Lowest({StateEnergy(evals, s, Len(s)) : s \in states})
    ELSE Sum([x \in DOMAIN evals |-> evals[x][0]], DOMAIN evals)

\* How far the thermal density of a mode leans to the upper end of its grid:
\* the shift of its first excitation from the harmonic one, in units of Res,
\* as far as the weights stay positive.
Lean(ev, om) ==
    LET shift == (ev[1] - ev[0]) - (HarmonicLevel(1, om) - HarmonicLevel(0, om))
        most == Res \div NInt
    IN  Max(0 - most, Min(most, shift \div Res))

\* rhoigrid[inm] from evalsvscf[inm], evecsvscf[inm]: the weights of the grid
\* points, NInt * Res in all
RhoGrid(ev, om) == [b \in 1..NInt |-> Res + Lean(ev, om) * (2 * b - NInt - 1)]

\* np.dot(vijgrid[inm][jnm].T, rhoigrid[jnm]) as one number
TwoBody(vijgrid, inm, jnm, rhoj) ==
    Sum([ab \in (1..NInt) \X (1..NInt) |->
            Contracted(vijgrid, inm, jnm, ab[1], ab[2]).val * rhoj[ab[2]]],
        (1..NInt) \X (1..NInt))

\* vijkgrid[inm][jnm][knm]: filled for inm < jnm < knm only
ThreeBody(vijkgrid, ts, inm, jnm, knm) ==
    LET at == {x \in 1..Len(ts) : ts[x] = <<inm, jnm, knm>>}
    IN  Res * Sum([x \in at |-> vijkgrid[x].val], at)

\* what the other modes add to vmft[ms[x]] in one iteration, before alphamix;
\* rho[y] is the density of mode ms[y] that is used
Coupling(ms, vijgrid, vijkgrid, threebody, x, rho) ==
    LET others == {y \in 1..Len(ms) : y # x}
        ts == Triples(ms)
    IN  Sum([y \in others |->
                TwoBody(vijgrid, ms[x], ms[y], rho[y])
                + (IF threebody
                   THEN LET rest == others \ {y}
                        IN  Sum([z \in rest |->
                                    ThreeBody(vijkgrid, ts, ms[x], ms[y], ms[z]) \div 2],
                                rest)
                   ELSE 0)],
            others)

\* variant: the mean field starts from zero
InitialFieldZero(vi) == [x \in DOMAIN vi |-> 0]

\* "vmft = vigrid.copy()"
InitialField(vi) == vi

\* "vmft[inm] = vigrid[inm] + (1.0 - alphamix) * (vmft[inm] - vigrid[inm])" and
\* "vmft[inm] += alphamix * ...", alphamix = 0.5
Mix(vi, vm, cpl) == vi + (vm - vi) \div 2 + cpl \div 2

\* "np.abs(acoupled - aold) / np.abs(aold) < self.athresh"; false for 0 / 0
Converged(a, aold, athresh) == Abs(a - aold) * Res * Res < athresh * Abs(aold)

\* variant: the loop may stop from iteration VscfMinIter on
MayStopAt(iiter) == iiter >= VscfMinIter

\* "if iiter > 5"
MayStop(iiter) == iiter > VscfMinIter

\* variant: the previous free energy is kept from the independent modes
AoldKept(aold, acoupled) == aold

\* "aold = acoupled.copy()"
AoldNext(aold, acoupled) == acoupled

\* the value of a set of one element: binds a value that is used many times
Only(S) == CHOOSE v \in S : TRUE

\* One iteration of the VSCF loop on the loop variables st, with the input
\* x: [vi, om, cpl, states, opt]. aold is what the convergence test of the
\* iteration compares with; conv is the outcome of the test; evalsold are the
\* eigensolutions the iteration started from.
VscfFree(x, st, vm, ev) ==
    Only({ [iiter |-> st.iiter + 1, vmft |-> vm, evalsvscf |-> ev, acoupled |-> a,
            evalsold |-> st.evalsvscf,
            aold |-> AoldNext(st.aold, st.acoupled),
            afree |-> Append(st.afree, a), vmfts |-> Append(st.vmfts, vm),
            conv |-> Converged(a, AoldNext(st.aold, st.acoupled), x.opt.athresh)] :
           a \in {FreeEnergy(ev, x.states, x.opt.mptwo)} })

\* variant: the density of a mode is taken from the eigensolution it has when
\* it is used
RhoUsedFresh(rhoigrid, evalsvscf, om, y) == RhoGrid(evalsvscf[y], om[y])

\* the density of mode y that the loop over the modes uses: rhoigrid, filled
\* before the loop
RhoUsed(rhoigrid, evalsvscf, om, y) == rhoigrid[y]

\* "for inm in inms": the modes order[k..] are run over in that order, each
\* with its new vmft and its new eigensolution put in place when it is done;
\* lp is [vmft, evalsvscf]
RECURSIVE ModeLoop(_, _, _, _, _)
ModeLoop(x, rhoigrid, lp, order, k) ==
    IF k > Len(order) THEN lp
    ELSE LET y == order[k]
         IN  Only({ ModeLoop(x, rhoigrid,
                             [vmft |-> [lp.vmft EXCEPT ![y] = vm],
                              evalsvscf |-> [lp.evalsvscf EXCEPT
                                                ![y] = EighMft(x.om[y], vm)]],
                             order, k + 1) :
                    vm \in {Mix(x.vi[y], lp.vmft[y],
                                Coupling(x.ms, x.vijgrid, x.vijkgrid, x.threebody, y,
                                         [z \in DOMAIN lp.vmft |->
                                             RhoUsed(rhoigrid, lp.evalsvscf, x.om, z)]))} })

\* the densities of all modes, then the loop over the modes, from the
\* potentials vmft and the eigensolutions evalsvscf of the iteration before
ModesIn(x, vmft, evalsvscf, order) ==
    Only({ ModeLoop(x, rhoigrid, [vmft |-> vmft, evalsvscf |-> evalsvscf], order, 1) :
           rhoigrid \in {[y \in DOMAIN vmft |-> RhoGrid(evalsvscf[y], x.om[y])]} })

VscfIterate(x, st) ==
    Only({ VscfFree(x, st, lp.vmft, lp.evalsvscf) :
           lp \in {ModesIn(x, st.vmft, st.evalsvscf,
                           [y \in DOMAIN st.vmft |-> y])} })

\* "if iiter > 5: if converged: break; if iiter > 200: warn; break"
Breaks(iiter, conv) == MayStop(iiter) /\ (conv \/ iiter > VscfCap)

\* The VSCF loop from the loop variables st on, up to its break. An iteration
\* that leaves vmft and aold as it found them is followed by iterations equal
\* to it, up to the first at which the loop breaks; they are written down
\* without being computed again.
RECURSIVE VscfLoop(_, _)
VscfLoop(x, st) ==
    Only({ IF Breaks(nx.iiter, nx.conv) THEN nx
           ELSE IF /\ nx.vmft = st.vmft /\ nx.evalsvscf = st.evalsvscf
                   /\ nx.aold = st.aold /\ nx.acoupled = st.acoupled
           THEN LET last == CHOOSE j \in nx.iiter..(VscfCap + VscfMinIter + 1) :
                                /\ Breaks(j, nx.conv)
                                /\ \A i \in nx.iiter..(j - 1) : ~Breaks(i, nx.conv)
                    more == last - nx.iiter
                IN  [nx EXCEPT !.iiter = last,
                               !.afree = @ \o [j \in 1..more |-> nx.acoupled],
                               !.vmfts = @ \o [j \in 1..more |-> nx.vmft]]
           ELSE VscfLoop(x, nx) :
           nx \in {VscfIterate(x, st)} })

\* the local variables of a step that stops before the bases are set up
SolverStopped(status, msg, reads, opt) ==
    [status |-> status, msg |-> msg, reads |-> reads, inms |-> <<>>,
     vigrid |-> <<>>, vijgrid |-> <<>>, vijkgrid |-> <<>>,
     basis |-> FALSE, iterated |-> FALSE, reported |-> FALSE, out |-> {},
     opt |-> opt, nstates |-> 0, toomany |-> FALSE, iiter |-> 0, afree |-> <<>>,
     vmfts |-> <<>>, field |-> <<>>, warned |-> FALSE, corr |-> 0, mp2 |-> FALSE,
     zerogap |-> FALSE, om |-> <<>>, evals |-> <<>>, threebody |-> FALSE,
     states |-> {}]

\* what the solver holds when the files are read and the independent modes
\* are solved
SolverInput(f, threebody, w2, reads, opt) ==
    LET ms == f[<<"modes">>]
        n == Len(ms)
    IN  Only({ [SolverStopped("ok", "", reads, opt)
                   EXCEPT !.inms = ms, !.vigrid = in.vigrid, !.vijgrid = in.vijgrid,
                          !.vijkgrid = in.vijkgrid, !.basis = TRUE, !.field = in.vi,
                          !.om = [y \in 1..n |-> Omega(w2[ms[y]])],
                          !.evals = IndepEvals(ms, w2, in.vi),
                          !.threebody = threebody] :
               in \in {[vigrid |-> [x \in 1..n |-> LoadIndep(f, ms[x])],
                        vijgrid |-> LoadVij(f, ms),
                        vijkgrid |-> IF threebody THEN LoadVijk(f, ms) ELSE <<>>,
                        vi |-> [x \in 1..n |-> Field(LoadIndep(f, ms[x]))]]} })

\* what the VSCF loop reads and leaves as it is
VscfInput(in, states) ==
    [vi |-> in.field, om |-> in.om, ms |-> in.inms, vijgrid |-> in.vijgrid,
     vijkgrid |-> in.vijkgrid, threebody |-> in.threebody, states |-> states,
     opt |-> in.opt]

\* the local variables at the return: the loop, the report, the MP2 sums
SolverReport(in, sreds) ==
    LET n == Len(in.inms)
        states == IF in.opt.mptwo THEN sreds[n] ELSE {}
        aindep == FreeEnergy(in.evals, states, in.opt.mptwo)
    IN  Only({ [status |-> "ok", msg |-> "", reads |-> in.reads, inms |-> in.inms,
                vigrid |-> in.vigrid, vijgrid |-> in.vijgrid,
                vijkgrid |-> in.vijkgrid, basis |-> TRUE, iterated |-> TRUE,
                reported |-> TRUE, out |-> SolverOutputs(in.inms), opt |-> in.opt,
                nstates |-> Cardinality(states),
                \* the test is made as each mode after the first is added
                toomany |-> in.opt.mptwo
                            /\ \E y \in 2..n : Cardinality(sreds[y]) > ManifoldCap,
                iiter |-> v.iiter, afree |-> v.afree, vmfts |-> v.vmfts,
                field |-> in.field, warned |-> ~v.conv,
                corr |-> v.acoupled - v.afree[1], mp2 |-> in.opt.mptwo,
                \* "matel**2 / (evaltotcoupled[istate]-evaltotcoupled[jstate])"
                \* for jstate # istate: two states of one total
                zerogap |-> in.opt.mptwo
                            /\ Cardinality({StateEnergy(v.evalsvscf, s, n) : s \in states})
                                   < Cardinality(states),
                om |-> in.om, evals |-> in.evals, threebody |-> in.threebody,
                states |-> states] :
               v \in {VscfLoop(VscfInput(in, states),
                               [iiter |-> 0, vmft |-> InitialField(in.field),
                                evalsvscf |-> in.evals,
                                acoupled |-> aindep, aold |-> aindep,
                                afree |-> <<aindep>>, vmfts |-> <<>>])} })

\* VSCFSolver.step(0): the local variables when it returns or is stopped.
SolverRun(f, threebody, w2, opt) ==
    Only({ IF l.status # "ok" THEN SolverStopped(l.status, l.msg, l.reads, opt)
           ELSE Only({ IF opt.mptwo /\ in.inms = <<>>
                       \* "sred = nmbasis[0]"
                       THEN [SolverStopped("error", "IndexError: nmbasis", l.reads, opt)
                                EXCEPT !.inms = in.inms, !.vigrid = in.vigrid,
                                       !.vijgrid = in.vijgrid, !.vijkgrid = in.vijkgrid,
                                       !.basis = TRUE, !.out = {<<"harfreqs">>}]
                       ELSE Only({ SolverReport(in, sreds) :
                                   sreds \in {IF opt.mptwo
                                              THEN Manifolds(in.evals, opt.nkbt, Len(in.inms))
                                              ELSE <<>>} }) :
                       in \in {SolverInput(f, threebody, w2, l.reads, opt)} }) :
           l \in {SolverLoad(f, threebody)} })

----------------------------------------------------------------------------
(* IMF.step, PC.step, terminate *)

\* w < 9.1126705e-06, that is w2 < 83.04e-12; false for NaN
BelowCutoff(w) == ~w.nan /\ w.sq <= 83

RECURSIVE Pow2(_)
Pow2(k) == IF k <= 0 THEN 1 ELSE 2 * Pow2(k - 1)

\* Displacements are counted in units of the grid spacing of the finest
\* density pass of the model; fnmrms * nmrms[step] is FineUnit of them.
FineUnit == Pow2(MaxDensity - 1)

\* variant: the first pass starts at fnmrms * nmrms[step]
PassStepUndoubled(it) == Pow2(MaxDensity - it - 1)

\* "ffnmrms = fnmrms * 0.5**sampling_density_iter * 2.0; nmd = ffnmrms * nmrms"
PassStep(it) == Pow2(MaxDensity - it)

\* variant: every pass walks in single steps
DeltaCounterOne(it) == 1

\* delta_counter
DeltaCounter(it) == IF it = 0 THEN 1 ELSE 2

\* "0.50 * w2 * (nmd * counter)**2 + dv": the total energy at displacement x
EnergyAt(c, inm, x) == x * x + (IF inm % 2 = 0 THEN c.skew ELSE 0) * FineUnit * x

\* nevib * nmevib[step]
BailoutEnergy == EThr * FineUnit * FineUnit

\* variant: the walk also stops on the threshold itself
BailoutInclusive(c, inm, x) == BailoutEnergy <= Abs(EnergyAt(c, inm, x))

\* the bailout condition of both directions
Bailout(c, inm, x) == BailoutEnergy < Abs(EnergyAt(c, inm, x))

\* One direction of one pass: the displacements appended to qlist.
RECURSIVE IMFWalk(_, _, _, _, _, _)
IMFWalk(c, inm, nmd, delta, counter, q) ==
    LET x == nmd * counter
    IN  IF Bailout(c, inm, x) THEN Append(q, x)
        ELSE IMFWalk(c, inm, nmd, delta, counter + delta, Append(q, x))

\* The two walks of density pass it: +ve direction, then -ve direction.
IMFPass(c, inm, it) ==
    [pos |-> IMFWalk(c, inm, PassStep(it), DeltaCounter(it), 1, <<>>),
     neg |-> IMFWalk(c, inm, PassStep(it), 0 - DeltaCounter(it), 0 - 1, <<>>)]

\* variant: a skipped mode is not counted
SkipCountKept(nz) == nz

\* "self.imm.nz += 1"
SkipCount(nz) == nz + 1

\* variant: the mode of index nz is a zero mode too
ZeroModeUpTo(s, nz) == s <= nz

\* "if step < self.imm.nz"
ZeroMode(s, nz) == s < nz

\* IMF.step(s) up to the first fit: [imm, calc, out, evals]; out "done",
\* "refine", "hang" or "indexerror"; skipped holds the modes it reported
\* as ignored
IMFStep(c, s, m, cl) ==
    IF s \notin DOMAIN m.w
    THEN [imm |-> m, calc |-> cl, out |-> "indexerror", evals |-> 0]
    ELSE IF ZeroMode(s, m.nz)
    THEN [imm |-> m, calc |-> [cl EXCEPT !.skipped = @ \cup {s}], out |-> "done",
          evals |-> 0]
    ELSE IF BelowCutoff(m.w[s])
    THEN [imm |-> [m EXCEPT !.nz = SkipCount(@)],
          calc |-> [cl EXCEPT !.skipped = @ \cup {s}], out |-> "done",
          evals |-> 0]
    ELSE IF m.w[s].nan
    \* nmrms and nmevib are NaN: the bailout test is never true
    THEN [imm |-> m, calc |-> cl, out |-> "hang", evals |-> 0]
    ELSE LET p == IMFPass(c, s, 0)
         IN  [imm |-> m,
              calc |-> [cl EXCEPT !.loop = [NoLoop EXCEPT !.pos = p.pos,
                                                          !.neg = p.neg,
                                                          !.qlist = <<0>> \o p.pos \o p.neg]],
              out |-> "refine", evals |-> Len(p.pos) + Len(p.neg)]

\* variant: the first basis is of size nbasis
NnBasisFromNbasis(nbasis, bs_iter) == nbasis + BasisStep * bs_iter

\* "nnbasis = max(1, self.nbasis - 5) + 5 * bs_iter"
NnBasis(nbasis, bs_iter) ==
    (IF nbasis - BasisStep < 1 THEN 1 ELSE nbasis - BasisStep) + BasisStep * bs_iter

\* One turn of the basis loop of IMF.step, with what follows it when it
\* breaks: conv and dconv are the outcomes of the two convergence tests.
\* Iterations past MaxBasis, and passes past MaxDensity, are folded onto the
\* last one; tick tells two successive folded turns apart.
IMFLoop(c, s, cl, conv, dconv) ==
    LET l == cl.loop
        nnbasis == NnBasis(cl.nbasis, l.bs)
        \* the basis sizes solved in this pass and the outcomes of their tests
        folded == l.bs > 0 /\ Len(l.sizes) > l.bs
        sizes == IF l.bs = 0 THEN <<nnbasis>>
                 ELSE IF folded THEN l.sizes ELSE Append(l.sizes, nnbasis)
        tests == IF l.bs = 0 THEN <<conv>>
                 ELSE IF folded THEN [l.tests EXCEPT ![Len(l.tests)] = conv]
                 ELSE Append(l.tests, conv)
    IN  IF ~conv
        \* "bs_iter += 1"
        THEN [calc |-> [cl EXCEPT !.loop.bs = Min(@ + 1, MaxBasis),
                                  !.loop.tick = IF l.bs = MaxBasis THEN ~@ ELSE @,
                                  !.loop.sizes = sizes, !.loop.tests = tests],
              out |-> "refine", evals |-> 0]
        ELSE IF ~dconv
        \* the next density pass
        THEN IF l.it < MaxDensity
             THEN LET p == IMFPass(c, s, l.it + 1)
                  IN  [calc |-> [cl EXCEPT !.loop = [l EXCEPT !.it = @ + 1, !.bs = 0,
                                                        !.pos = p.pos, !.neg = p.neg,
                                                        !.qlist = @ \o p.pos \o p.neg,
                                                        !.sizes = sizes,
                                                        !.tests = tests]],
                       out |-> "refine", evals |-> Len(p.pos) + Len(p.neg)]
             ELSE [calc |-> [cl EXCEPT !.loop.bs = 0, !.loop.tick = ~@,
                                       !.loop.sizes = sizes, !.loop.tests = tests],
                   out |-> "refine", evals |-> 0]
        \* both tests pass: the two files, and the totals
        ELSE [calc |-> [cl EXCEPT !.treated = @ \cup {s},
                                  !.out = @ \cup {<<"qvf", s>>, <<"vfit", s>>},
                                  !.totals = [k \in DOMAIN @ |-> @[k] \cup {s}],
                                  !.loop = NoLoop],
              out |-> "done", evals |-> 0]

\* "nmd = ffnmrms * self.imm.nmrms[step]" of PC.step, in steps of the
\* configured fraction fc of nmrms: ffnmrms is the 2.0 of PC.bind
PcUnit(fc) == PcFnmrms \div fc

\* what PC.step compares with the threshold at x steps, in harmonic energies
\* of one step: dv, which is the potential less v0, plus the harmonic energy
PcTested(c, inm, x) == Pot1(c, inm, x) + x * x

\* "... > self.imm.nmevib[step] * ffnmrms * 0.75" for an energy e and a
\* fraction f: nmevib is two harmonic energies of one step over fc squared
Exceeds(e, fc, f) == 4 * fc * fc * e > 3 * (2 * f)

\* the counter at which the walk of PC.step breaks, in direction sign
RECURSIVE PcBreak(_, _, _, _, _)
PcBreak(c, fc, inm, sign, k) ==
    IF Exceeds(PcTested(c, inm, sign * k * PcUnit(fc)), fc, PcFnmrms) THEN k
    ELSE PcBreak(c, fc, inm, sign, k + 1)

\* PC.step(s)
PCStep(c, s, m, cl) ==
    IF s \notin DOMAIN m.w2
    THEN [imm |-> m, calc |-> cl, out |-> "indexerror", evals |-> 0]
    ELSE IF Abs(m.w2[s]) < W2Cut
    THEN [imm |-> m, calc |-> cl, out |-> "done", evals |-> 0]
    ELSE IF m.w[s].nan \/ m.w[s].sq = 0
    \* the displacement is NaN or zero: the bailout test is never true
    THEN [imm |-> m, calc |-> cl, out |-> "hang", evals |-> 0]
    ELSE Only({
         [imm |-> m,
          calc |-> [cl EXCEPT !.treated = @ \cup {s},
                              !.out = @ \cup {<<"v", s>>, <<"f", s>>, <<"q", s>>},
                              !.walked = k,
                              !.qlist = <<0, k[1] * PcUnit(cl.fnmrms),
                                          0 - k[2] * PcUnit(cl.fnmrms)>>],
          out |-> "done", evals |-> k[1] + k[2]] :
         k \in {<<PcBreak(c, cl.fnmrms, s, 1, 1),
                  PcBreak(c, cl.fnmrms, s, 0 - 1, 1)>>} })

----------------------------------------------------------------------------
(* NormalModeMover.step *)

\* variant: the cap is inclusive
CalcStepInvokedUpTo(s, natoms) == s <= 3 * natoms

\* "if step < 3 * natoms": the calculator's step, else terminate and softexit
CalcStepInvoked(s, natoms) == s < 3 * natoms

Stepping == run = "bound" /\ CalcStepInvoked(istep, cfg.natoms)
CallStep == [s |-> istep, step |-> TRUE, terminate |-> FALSE, exit |-> FALSE]

MoverStepIMF ==
    /\ Stepping
    /\ mode \in {"imf", "pc"}
    /\ LET r == IF mode = "imf" THEN IMFStep(cfg, istep, imm, calc)
                ELSE PCStep(cfg, istep, imm, calc)
       IN  /\ imm' = r.imm
           /\ calc' = r.calc
           /\ run' = CASE r.out = "done" -> "bound"
                       [] r.out = "refine" -> "refining"
                       [] r.out = "hang" -> "hung"
                       [] r.out = "indexerror" -> "error"
           /\ err' = IF r.out = "indexerror" THEN "IndexError" ELSE err
           /\ istep' = IF r.out = "done" THEN istep + 1 ELSE istep
           /\ inv' = [evals |-> r.evals, touched |-> r.calc.out \ calc.out]
    /\ call' = CallStep
    /\ UNCHANGED <<cfg, mode, map, sol, files, hist>>

\* IMF.step from one convergence test to the next, and its return
IMFRefine ==
    /\ run = "refining"
    /\ \E conv \in BOOLEAN, dconv \in BOOLEAN :
          LET r == IMFLoop(cfg, istep, calc, conv, dconv)
          IN  /\ calc' = r.calc
              /\ run' = IF r.out = "done" THEN "bound" ELSE "refining"
              /\ istep' = IF r.out = "done" THEN istep + 1 ELSE istep
              /\ inv' = [evals |-> inv.evals + r.evals,
                         touched |-> inv.touched \cup (r.calc.out \ calc.out)]
    /\ UNCHANGED <<cfg, mode, err, imm, call, map, sol, files, hist>>

\* VSCFMapper.step up to its first file write
MoverStepMapper ==
    /\ Stepping
    /\ mode = "vscfmapper"
    /\ call' = CallStep
    /\ inv' = NewInv
    /\ IF OneShotOver(istep)
       THEN /\ run' = softexit_trigger("VSCF has finished").run
            /\ err' = softexit_trigger("VSCF has finished").err
            /\ map' = map
       ELSE /\ run' = "mapping"
            /\ err' = err
            /\ map' = [IdleMap EXCEPT !.pc = "potoffset"]
    /\ UNCHANGED <<cfg, mode, istep, imm, calc, sol, files, hist>>

\* VSCFMapper.step from one file write to the next, and its return
MapperAdvance ==
    /\ run = "mapping"
    /\ LET r == MapStep(cfg, imm.w2, map, files, inv)
       IN  /\ map' = r.map
           /\ files' = r.files
           /\ inv' = r.inv
           /\ run' = CASE r.out = "more" -> "mapping"
                       [] r.out = "done" -> "bound"
                       [] r.out = "hang" -> "hung"
                       [] r.out = "ioerror" -> "error"
           /\ err' = IF r.out = "ioerror" THEN "IOError" ELSE err
           /\ istep' = IF r.out = "done" THEN istep + 1 ELSE istep
           /\ hist' = IF r.out = "done" THEN [hist EXCEPT !.mapped = TRUE] ELSE hist
    /\ UNCHANGED <<cfg, mode, imm, calc, call, sol>>

MoverStepSolver ==
    /\ Stepping
    /\ mode = "vscfsolver"
    /\ call' = CallStep
    /\ IF OneShotOver(istep)
       THEN /\ run' = softexit_trigger("VSCF has finished").run
            /\ err' = softexit_trigger("VSCF has finished").err
            /\ sol' = sol
            /\ inv' = NewInv
            /\ istep' = istep
       ELSE \E r \in {SolverRun(files, cfg.threebody, imm.w2, imm.opt)} :
                /\ sol' = r
                /\ run' = IF r.status = "ok" THEN "bound" ELSE r.status
                /\ err' = r.msg
                /\ inv' = [evals |-> 0, touched |-> r.reads \cup r.out]
                /\ istep' = IF r.status = "ok" THEN istep + 1 ELSE istep
    /\ UNCHANGED <<cfg, mode, imm, calc, map, files, hist>>

\* the else branch: calc.terminate(), then softexit.trigger
\* the files of PC.transform: prefix.qpc.xyz and prefix.dmpc.data, written
\* under the natoms of the mover
PcFiles(natoms) == {<<"qpc", natoms>>, <<"dmpc", natoms>>}

\* PC.transform: the corrected geometry and dynamical matrix; nothing in the
\* source calls it
transform(natoms, cl) == [cl EXCEPT !.out = @ \cup PcFiles(natoms)]

\* IMF.terminate, which PC inherits: it reports the totals and writes nothing
terminate(cl) == [cl EXCEPT !.terminated = TRUE]

MoverTerminate ==
    /\ run = "bound"
    /\ ~CalcStepInvoked(istep, cfg.natoms)
    /\ call' = [s |-> istep, step |-> FALSE, terminate |-> TRUE, exit |-> TRUE]
    /\ calc' = terminate(calc)
    /\ run' = softexit_trigger("Independent Mode Calculation has terminated").run
    /\ err' = softexit_trigger("Independent Mode Calculation has terminated").err
    /\ inv' = NewInv
    /\ UNCHANGED <<cfg, mode, istep, imm, map, sol, files, hist>>

----------------------------------------------------------------------------
(* The runs *)

\* the outer loop has no step left
EndRun ==
    /\ run = "bound"
    /\ run' = "ended"
    /\ UNCHANGED <<cfg, mode, err, istep, imm, calc, call, inv, map, sol, files, hist>>

\* the process is killed while it maps or hangs
Kill ==
    /\ run \in {"mapping", "hung"}
    /\ run' = "killed"
    /\ hist' = IF run = "mapping" /\ ~hist.mapped
               THEN [hist EXCEPT !.interrupted = TRUE,
                                 !.midway = @ \/ (map.pc = "couple" /\ map.sub > 0)]
               ELSE hist
    /\ UNCHANGED <<cfg, mode, err, istep, imm, calc, call, inv, map, sol, files>>

\* The next run in the same directory, on the same input: one of the
\* calculators that use the directory, started at one of the first steps.
Launch ==
    /\ run \in {"error", "softexit", "ended", "killed"}
    /\ \E md \in {"vscfmapper", "vscfsolver"}, s0 \in 0..MaxStart :
          /\ mode' = md
          /\ istep' = s0
    /\ run' = "new"
    /\ err' = ""
    /\ imm' = NewMover(cfg)
    /\ calc' = NewCalc
    /\ call' = NoCall
    /\ inv' = NewInv
    /\ map' = IdleMap
    /\ sol' = IdleSol
    /\ hist' = [hist EXCEPT !.premapped = hist.mapped,
                            !.snap = IF hist.mapped THEN files ELSE <<>>]
    /\ UNCHANGED <<cfg, files>>

Init ==
    /\ cfg \in Configs
    /\ mode \in Modes
    /\ istep \in StartSteps(cfg.natoms)
    /\ run = "new"
    /\ err = ""
    /\ imm = NewMover(cfg)
    /\ calc = NewCalc
    /\ call = NoCall
    /\ inv = NewInv
    /\ map = IdleMap
    /\ sol = IdleSol
    /\ files = <<>>
    /\ hist = [mapped |-> FALSE, premapped |-> FALSE, interrupted |-> FALSE,
               midway |-> FALSE, snap |-> <<>>]

Next ==
    \/ MoverBind
    \/ MoverStepIMF
    \/ IMFRefine
    \/ MoverStepMapper
    \/ MapperAdvance
    \/ MoverStepSolver
    \/ MoverTerminate
    \/ EndRun
    \/ Kill
    \/ Launch

Spec == Init /\ [][Next]_vars

\* the process does not stop by itself inside the loops of IMF.step
FairSpec == Spec /\ WF_vars(IMFRefine)

----------------------------------------------------------------------------
(* Whole runs of the mapper, and what the solver asks of the directory *)

RECURSIVE RunMapper(_, _, _, _, _)
RunMapper(c, w2, m, f, v) ==
    LET r == MapStep(c, w2, m, f, v)
    IN  IF r.out = "more" THEN RunMapper(c, w2, r.map, r.files, r.inv) ELSE r

\* w2 as bind leaves it for the input c
BoundW2(c) == IMFBind(c, NewMover(c)).imm.w2

\* the directory after VSCFMapper.step(0) has run in an empty one, undisturbed
Uninterrupted(c) ==
    RunMapper(c, BoundW2(c), [IdleMap EXCEPT !.pc = "potoffset"], <<>>, NewInv).files

PersistedKinds == {"nptsmin", "nptsmax", "vindeps", "vindep", "vcoupled", "vtriplet"}

\* the intermediate products in directory f
Persisted(f) ==
    LET names == {name \in DOMAIN f : name[1] \in PersistedKinds}
    IN  [name \in names |-> f[name]]

\* the files VSCFSolver.step(0) looks for in directory f
Required(f, threebody) ==
    {<<"modes">>, <<"nptsmin">>, <<"nptsmax">>, <<"potoffset">>}
    \cup (IF Exists(f, <<"modes">>)
          THEN LET ms == f[<<"modes">>]
                   All(names) == {names[y] : y \in 1..Len(names)}
               IN  All(IndepNames(ms)) \cup All(CoupledNames(ms))
                   \cup (IF threebody THEN All(TripletNames(ms)) ELSE {})
          ELSE {})

SolverRan == mode = "vscfsolver" /\ call.step /\ call.s = 0
MapperRan == mode = "vscfmapper" /\ call.step /\ call.s = 0

\* the solver holds a zero array where data of a file belongs
HoldsDefault(r) ==
    \/ \E x \in DOMAIN r.vigrid : r.vigrid[x] = ZeroCurve
    \/ \E pr \in DOMAIN r.vijgrid :
          pr[1] # pr[2] /\ r.vijgrid[pr] \in {ZeroGrid, Transpose(ZeroGrid)}
    \/ \E x \in DOMAIN r.vijkgrid : r.vijkgrid[x] = ZeroTriplet

----------------------------------------------------------------------------
(* Properties *)

\* C1: when VSCFSolver.step(0) starts and a file it requires is absent, the run
\* is stopped with an error before the basis is set up, before any VSCF
\* iteration and before any free energy is reported, and no zero array is ever
\* used in place of data that is missing.
C1_MissingArtifactStops ==
    SolverRan =>
        /\ Required(files, cfg.threebody) \ DOMAIN files # {} =>
              /\ sol.status \in {"softexit", "error"}
              /\ ~sol.basis /\ ~sol.iterated /\ ~sol.reported
              /\ sol.out = {}
        /\ ~HoldsDefault(sol)

C1_Witness ==
    /\ SolverRan
    /\ sol.status = "softexit" /\ sol.msg = "vcoupled"
    /\ \E name \in Required(files, cfg.threebody) : ~Exists(files, name)

\* C2 as stated: after a completed VSCFMapper run every file the solver
\* requires exists, whatever the number of included modes and the setting of
\* threebody, and the solver started then never stops on a missing file.
C2_SolverFilesAfterMapper ==
    hist.mapped =>
        /\ Required(files, cfg.threebody) \subseteq DOMAIN files
        /\ SolverRan => sol.status # "softexit"

\* C3: a second complete VSCFMapper.step(0) in the directory of a completed one
\* evaluates the potential at no displaced configuration and leaves nptsmin,
\* nptsmax and every vindeps, vindep, vcoupled and vtriplet file as it was.
C3_MapperIdempotent ==
    (MapperRan /\ hist.premapped) =>
        /\ inv.evals = 0
        /\ Persisted(files) = Persisted(hist.snap)

C3_Witness ==
    /\ MapperRan /\ hist.premapped
    /\ run = "bound" /\ map.pc = "done"
    /\ \E name \in DOMAIN files : name[1] = "vcoupled"

\* C4: a VSCFMapper run interrupted between two file writes and then rerun to
\* completion leaves every persisted file equal to that of an uninterrupted run.
C4_MapperRestartable ==
    (hist.interrupted /\ hist.mapped) =>
        Persisted(files) = Persisted(Uninterrupted(cfg))

C4_Witness ==
    /\ hist.interrupted /\ hist.mapped
    /\ hist.midway
    /\ \E name \in DOMAIN files : name[1] = "vcoupled"

\* C5: for distinct included modes i, j and grid indices a, b the coupling the
\* solver contracts for mode i at a against the density of j at b is the
\* correction the mapper computed at (q_i[a], q_j[b]), for i < j and for i > j.
C5_RoundTrip ==
    (SolverRan /\ sol.status = "ok") =>
        \A x, y \in 1..Len(sol.inms) : \A a, b \in 1..NInt :
            x # y =>
                Contracted(sol.vijgrid, sol.inms[x], sol.inms[y], a, b).pt
                    = Point2(sol.inms[x], a, sol.inms[y], b)

C5_Witness ==
    /\ SolverRan /\ sol.status = "ok"
    /\ Len(sol.inms) >= 2
    /\ \E pr \in DOMAIN sol.vijgrid : pr[1] > pr[2]

\* C6: NormalModeMover.step(s) invokes the calculator's step iff s < 3*natoms;
\* for s >= 3*natoms it invokes terminate, then raises the stop signal, and
\* never the calculator's step.
C6_StepCap ==
    call.s >= 0 =>
        /\ call.step <=> call.s < 3 * cfg.natoms
        /\ call.s >= 3 * cfg.natoms =>
              call.terminate /\ calc.terminated /\ call.exit /\ ~call.step
        /\ call.step => ~call.terminate /\ ~calc.terminated

C6_Witness ==
    /\ call.s >= 3 * cfg.natoms
    /\ call.terminate /\ call.exit /\ calc.terminated

\* C7: VSCFMapper.step or VSCFSolver.step invoked with a step index > 0 raises
\* the stop signal, evaluates no potential and reads or writes no file.
C7_OneShot ==
    (mode \in {"vscfmapper", "vscfsolver"} /\ call.step /\ call.s > 0) =>
        /\ run = "softexit"
        /\ inv.evals = 0 /\ inv.touched = {}

C7_Witness ==
    /\ mode = "vscfmapper" /\ call.step /\ call.s > 0
    /\ run = "softexit" /\ inv.touched = {}

\* C8: NormalModeMover.bind with more than one replica fails, and the
\* calculator's bind is not invoked: no ASR, no diagonalization, no modes.
C8_BeadsRejected ==
    (cfg.nbeads > 1 /\ imm.motionbind) =>
        /\ run = "error" /\ err = "ValueError: beads"
        /\ ~imm.calcbind /\ ~imm.asrcalled /\ ~imm.eigh
        /\ imm.w2 = <<>> /\ imm.w = <<>>

C8_Witness == cfg.nbeads > 1 /\ imm.motionbind /\ run = "error"

\* C9: the calculator's bind fails iff the dynamical matrix has neither 0 nor
\* (3*natoms)^2 elements; on failure there is no ASR and no diagonalization; an
\* empty matrix becomes the N x N zero matrix; a matching one is reshaped.
C9_DynmatSize ==
    imm.calcbind =>
        LET N == 3 * cfg.natoms
            failed == run = "error" /\ err = "ValueError: dynmat"
        IN  /\ failed <=> cfg.dynsize \notin {0, N * N}
            /\ failed => ~imm.asrcalled /\ ~imm.eigh
            /\ cfg.dynsize = 0 =>
                  imm.dynmatrix.shape = <<N, N>> /\ imm.dynmatrix.data = "zeros"
            /\ cfg.dynsize = N * N =>
                  imm.dynmatrix.shape = <<N, N>> /\ imm.dynmatrix.data = "input"

C9_Witness ==
    /\ imm.calcbind
    /\ cfg.dynsize \notin {0, 9 * cfg.natoms * cfg.natoms}
    /\ run = "error" /\ ~imm.eigh

\* C10: after bind nz follows from the ASR mode alone: none leaves the matrix
\* unchanged with nz = 0, crystal gives nz = 3, poly gives nz = 6.
C10_ZeroModes ==
    (run = "bound" /\ call = NoCall) =>
        /\ cfg.asr = "none" =>
              /\ imm.nz = 0
              /\ imm.dynmatrix = DynmatSized(NewMover(cfg).dynmatrix, 3 * cfg.natoms).dm
        /\ cfg.asr = "crystal" => imm.nz = 3
        /\ cfg.asr = "poly" => imm.nz = 6

C10_Witness ==
    /\ run = "bound" /\ call = NoCall
    /\ cfg.asr = "crystal" /\ imm.nz = 3 /\ imm.dynmatrix.data = "input"

Bound == run = "bound" /\ call = NoCall

\* C11 as stated: after bind the frequency w[i] is 0 for i < nz and
\* sqrt(max(eigenvalue_i, 0)) for i >= nz; a negative eigenvalue at an index
\* >= nz gives frequency 0, never an undefined value.
C11_FrequenciesClamped ==
    Bound =>
        \A i \in DOMAIN imm.w :
            /\ ~imm.w[i].nan
            /\ i < imm.nz => imm.w[i] = Sqrt(0)
            /\ i >= imm.nz => imm.w[i] = Sqrt(Max(imm.w2[i], 0))

----------------------------------------------------------------------------
(* IMF.step: the adaptive sampler *)

\* IMF.step is between two convergence tests
Refining == run = "refining"

\* the two outward walks of the current density pass
PassWalks == {calc.loop.pos, calc.loop.neg}

\* the total energy, in absolute value, of the k-th point of walk q
WalkEnergy(q, k) == Abs(EnergyAt(cfg, istep, q[k]))

\* C12, boundary corrected: in each outward walk of every density pass the
\* last point sampled has |harmonic + anharmonic energy| strictly above
\* nevib * nmevib, and every earlier point of the walk has it at or below
\* nevib * nmevib (a point exactly on the threshold does not stop the walk).
C12_SamplerInvariant ==
    Refining =>
        \A q \in PassWalks :
            /\ Len(q) >= 1
            /\ BailoutEnergy < WalkEnergy(q, Len(q))
            /\ \A k \in 1..(Len(q) - 1) : WalkEnergy(q, k) <= BailoutEnergy

\* a later density pass with a walk that went past a point on the threshold
C12_Witness ==
    /\ Refining
    /\ calc.loop.it >= 1
    /\ \E q \in PassWalks :
          Len(q) >= 2 /\ WalkEnergy(q, Len(q) - 1) = BailoutEnergy

\* C12 as stated: the last point has energy >= nevib * nmevib and every
\* earlier point of the walk is strictly below it.
C12_SamplerStrict ==
    Refining =>
        \A q \in PassWalks :
            /\ Len(q) >= 1
            /\ BailoutEnergy <= WalkEnergy(q, Len(q))
            /\ \A k \in 1..(Len(q) - 1) : WalkEnergy(q, k) < BailoutEnergy

----------------------------------------------------------------------------
(* VSCFSolver.step: the VSCF loop *)

\* VSCFSolver.step(0) has returned
SolverDone == SolverRan /\ sol.status = "ok" /\ sol.iterated

\* the free energy of iteration k; of the independent modes for k = 0
FreeAt(k) == sol.afree[k + 1]

\* the change of iteration k against iteration k - 1 is below athresh
ChangeBelow(k) == Converged(FreeAt(k), FreeAt(k - 1), sol.opt.athresh)

\* C13: the VSCF loop never stops at an iteration k <= 5; past it, when it
\* stops on convergence it does so at the first iteration k > 5 whose
\* relative free-energy change against iteration k - 1 (the independent-mode
\* free energy for k = 1) is below athresh.
C13_VscfStop ==
    SolverDone =>
        /\ sol.iiter > VscfMinIter
        /\ Len(sol.afree) = sol.iiter + 1
        /\ \A k \in (VscfMinIter + 1)..(sol.iiter - 1) : ~ChangeBelow(k)
        /\ sol.warned <=> ~ChangeBelow(sol.iiter)

\* a run that went past iteration 6 and stopped, converged, at the first
\* iteration whose change was below athresh
C13_Witness ==
    /\ SolverDone
    /\ ~sol.warned
    /\ sol.iiter > VscfMinIter + 1
    /\ ChangeBelow(sol.iiter)

\* C14 as stated: the VSCF loop executes at most 200 iterations; when it
\* stops without the threshold being met the warning is given, the run goes
\* on and the energies are reported.
C14_VscfCap ==
    SolverDone =>
        /\ sol.iiter <= VscfCap
        /\ ~ChangeBelow(sol.iiter) => sol.warned /\ sol.reported /\ err = ""

----------------------------------------------------------------------------
(* IMF.step: the refinement loops *)

\* C15 as stated: the sampling-density loop of IMF.step and the basis-size
\* loop nested in it stop after a bounded number of iterations whatever the
\* outcomes of the convergence tests: a step that refines returns.
C15_RefinementStops == Refining ~> ~Refining

----------------------------------------------------------------------------
(* VSCFSolver.step: the state manifold and the MP2 sums *)

\* C16 as stated: the manifold of states of the VSCF iteration and of the MP2
\* correction never holds more than 1000 states: past it the diagnostic is
\* given and the manifold is cut to the cap or the correction is left out.
C16_ManifoldCapped ==
    SolverDone =>
        /\ sol.nstates <= ManifoldCap
        /\ sol.toomany => ~sol.mp2 \/ sol.nstates = ManifoldCap

\* C17 as stated: every energy denominator of the MP2 sum, the difference of
\* the total energies of two states of the manifold, differs from zero, also
\* for two distinct states of equal total energy.
C17_NoZeroGap ==
    (SolverDone /\ sol.mp2) => ~sol.zerogap

----------------------------------------------------------------------------
(* VSCFSolver.step: the mean field without coupling *)

SolverModes == {sol.inms[x] : x \in 1..Len(sol.inms)}

\* every entry of every vijgrid and vijkgrid the solver has read is zero
ZeroCouplings ==
    /\ \A inm \in SolverModes, jnm \in SolverModes, a \in 1..NInt, b \in 1..NInt :
           Contracted(sol.vijgrid, inm, jnm, a, b).val = 0
    /\ \A x \in 1..Len(sol.vijkgrid) : sol.vijkgrid[x].val = 0

\* C18: when every coupling grid the solver reads is zero, the mean-field
\* potential of each mode after every VSCF iteration is its independent-mode
\* potential, the free energy of every iteration is the independent-mode free
\* energy, and the reported VSCF correction is zero; the damped update leaves
\* an uncoupled potential where it is.
C18_ZeroCouplingFixedPoint ==
    /\ \A v \in (0 - Res)..Res : Mix(v, v, 0) = v
    /\ (SolverDone /\ ZeroCouplings) =>
           /\ \A k \in 1..Len(sol.vmfts) : sol.vmfts[k] = sol.field
           /\ \A k \in 1..Len(sol.afree) : sol.afree[k] = sol.afree[1]
           /\ sol.corr = 0

C18_Witness ==
    /\ SolverDone /\ ZeroCouplings
    /\ Len(sol.inms) >= 2
    /\ Len(sol.vmfts) = sol.iiter /\ sol.iiter > VscfMinIter
    /\ sol.afree[1] # 0

----------------------------------------------------------------------------
(* IMF.step: the modes it passes over, and its first pass *)

\* "if step < self.imm.nz" and "elif self.imm.w[step] < 9.1126705e-06"
ImfIgnored == run = "bound" /\ istep < imm.nz
ImfCut == run = "bound" /\ ~(istep < imm.nz) /\ BelowCutoff(imm.w[istep])

\* C19: IMF.step(i) with i < nz, or with w[i] below the cutoff, evaluates no
\* displaced potential, writes no file and leaves the four totals as they
\* are; nz grows by exactly 1 when the frequency is below the cutoff and is
\* left alone when i < nz and all through the step of a treated mode.
C19_ImfSkip ==
    [][(mode = "imf" /\ (MoverStepIMF \/ IMFRefine)) =>
          /\ (ImfIgnored \/ ImfCut) =>
                 /\ inv'.evals = 0
                 /\ inv'.touched = {} /\ calc'.out = calc.out /\ files' = files
                 /\ calc'.totals = calc.totals
                 /\ run' = "bound" /\ istep' = istep + 1
          /\ imm'.nz = IF ImfCut THEN imm.nz + 1 ELSE imm.nz]_vars

C19_Witness ==
    /\ mode = "imf" /\ cfg.asr = "none" /\ run = "bound"
    /\ call.step /\ call.s = 0 /\ istep = 1
    /\ BelowCutoff(imm.w[0]) /\ imm.nz = 1
    /\ inv.evals = 0 /\ calc.out = {} /\ calc.totals = NoTotals

\* the walks of the first pass, while the step is in its loops
FirstPass == Refining /\ calc.loop.it = 0

\* the displacements of both walks are the multiples 1, 2, ... of step
WalksByStep(step) ==
    /\ \A k \in 1..Len(calc.loop.pos) : calc.loop.pos[k] = k * step
    /\ \A k \in 1..Len(calc.loop.neg) : calc.loop.neg[k] = 0 - k * step

\* the walks go up to the bailout point and no further
WalksToBailout ==
    \A q \in PassWalks :
        /\ Len(q) >= 1
        /\ \A k \in 1..Len(q) : Bailout(cfg, istep, q[k]) <=> k = Len(q)

\* C20, amended: in the first sampling pass of IMF.step for a treated mode
\* the displacement step is 2 * fnmrms * nmrms_i, so the displacements of
\* that pass are the multiples +1, +2, ... and -1, -2, ... of
\* 2 * fnmrms * nmrms_i up to the bailout point.
C20_FirstPassDoubled ==
    FirstPass => WalksByStep(2 * FineUnit) /\ WalksToBailout

C20_Witness ==
    /\ FirstPass
    /\ Len(calc.loop.pos) + Len(calc.loop.neg) >= 3
    /\ calc.loop.qlist = <<0>> \o calc.loop.pos \o calc.loop.neg

\* C20 as stated: the step of the first pass is fnmrms * nmrms_i.
C20_FirstPassUnit ==
    FirstPass => WalksByStep(FineUnit) /\ WalksToBailout

\* C21: over both directions and all density passes of one mode no displaced
\* configuration is evaluated twice: the displacements in qlist, the
\* equilibrium point 0 first, are pairwise distinct at every moment, and
\* there is one evaluation for each displaced point.
C21_NoResampling ==
    Refining =>
        LET q == calc.loop.qlist
        IN  /\ Len(q) >= 3 /\ q[1] = 0
            /\ \A a \in 1..Len(q), b \in 1..Len(q) : q[a] = q[b] => a = b
            /\ inv.evals = Len(q) - 1

C21_Witness ==
    /\ Refining /\ calc.loop.it = MaxDensity
    /\ Len(calc.loop.qlist) >= 2 * (MaxDensity + 1) + 2

----------------------------------------------------------------------------
(* IMF.step: the basis loop *)

\* the basis sizes of the pass in hand, or of the pass just left, are those
\* that start at first and go up in steps of 5
SizesFrom(first) ==
    \A k \in 1..Len(calc.loop.sizes) :
        calc.loop.sizes[k] = first + BasisStep * (k - 1)

\* the pass stays in the basis loop past every size whose test fails and
\* leaves it at the first size whose test passes
StopsAtFirstPass ==
    LET t == calc.loop.tests
    IN  /\ Len(t) = Len(calc.loop.sizes)
        /\ \A k \in 1..(Len(t) - 1) : ~t[k]
        /\ calc.loop.bs > 0 => t # <<>> /\ ~t[Len(t)]
        /\ (calc.loop.bs = 0 /\ t # <<>>) => t[Len(t)]

\* C22, amended: in each density pass the Hamiltonian is solved with the
\* basis sizes max(1, nbasis - 5), max(1, nbasis - 5) + 5, ... in that order,
\* and the refinement stops at the first size whose free energy differs from
\* the one before it (a seed of 1e-20 before the first) by a fractional
\* change below athresh.
C22_BasisRefinement ==
    Refining => SizesFrom(Max(1, calc.nbasis - BasisStep)) /\ StopsAtFirstPass

C22_Witness ==
    /\ Refining /\ calc.nbasis = MaxNbasis
    /\ calc.loop.bs = 0 /\ calc.loop.it >= 1
    /\ Len(calc.loop.sizes) = MaxBasis + 1
    /\ calc.loop.sizes[2] = calc.nbasis
    /\ calc.loop.tests[MaxBasis + 1]

\* C22 as stated: the sizes are nbasis, nbasis + 5, nbasis + 10, ...
C22_BasisFromNbasis ==
    Refining => SizesFrom(calc.nbasis) /\ StopsAtFirstPass

----------------------------------------------------------------------------
(* VSCFSolver.step: the order inside an iteration *)

\* the potentials and the eigensolutions iteration k starts from
VmftBefore(k) == IF k = 1 THEN InitialField(sol.field) ELSE sol.vmfts[k - 1]
EvalsBefore(k) ==
    IF k = 1 THEN sol.evals
    ELSE [y \in DOMAIN sol.vmfts[k - 1] |-> EighMft(sol.om[y], sol.vmfts[k - 1][y])]

\* the densities of all modes from the eigensolutions iteration k starts from
RhoBefore(k) ==
    [y \in 1..Len(sol.inms) |-> RhoGrid(EvalsBefore(k)[y], sol.om[y])]

\* the potential of every mode from those densities alone
FromBefore(k) ==
    [y \in 1..Len(sol.inms) |->
        Mix(sol.field[y], VmftBefore(k)[y],
            Coupling(sol.inms, sol.vijgrid, sol.vijkgrid, sol.threebody, y,
                     RhoBefore(k)))]

\* the orders in which the modes can be run over
ModeOrders ==
    LET n == Len(sol.inms)
    IN  {o \in [1..n -> 1..n] : \A a \in 1..n, b \in 1..n : o[a] = o[b] => a = b}

\* the iterations that do not start from what the one before started from
FreshIterations ==
    {k \in 1..Len(sol.vmfts) : k <= 2 \/ sol.vmfts[k - 1] # sol.vmfts[k - 2]}

\* C23: in iteration k of the VSCF loop the densities of all modes come from
\* the eigensolutions iteration k - 1 left (those of the independent modes
\* for k = 1) before any potential is recomputed: the new potential of a
\* mode never uses a density from another mode's eigensolution of iteration
\* k, and the outcome is the same in whatever order the modes are run over.
C23_DensitiesFirst ==
    SolverDone =>
        /\ \A k \in FreshIterations :
               /\ sol.vmfts[k] = FromBefore(k)
               /\ \A o \in ModeOrders :
                      ModesIn(VscfInput(sol, {}), VmftBefore(k), EvalsBefore(k), o).vmft
                          = sol.vmfts[k]
        /\ \A k \in (1..Len(sol.vmfts)) \ FreshIterations :
               sol.vmfts[k] = sol.vmfts[k - 1]

C23_Witness ==
    /\ SolverDone /\ Len(sol.inms) >= 3
    /\ \E k \in FreshIterations :
           /\ k >= 2 /\ sol.vmfts[k] # sol.vmfts[k - 1]
           /\ RhoBefore(k) # RhoBefore(1)
           /\ \E y \in 1..Len(sol.inms) : RhoBefore(k)[y][1] # RhoBefore(k)[y][NInt]

----------------------------------------------------------------------------
(* VSCFMapper.step: the grid of a pair *)

\* the mapper is about to map the pair inms-pair number map.k
PairStarts ==
    /\ run = "mapping" /\ map.pc = "couple" /\ ~cfg.threebody /\ map.sub = 0
    /\ map.k <= Len(Pairs(MapperModes(imm.w2)))
    /\ ~Cached(files, <<"vcoupled", Pairs(MapperModes(imm.w2))[map.k][1],
                                     Pairs(MapperModes(imm.w2))[map.k][2]>>)

\* the 1D curve of mode inm has npts + 4 entries, the value at equilibrium at
\* index nptsmin + 2 from 0
CurveShape(ms, inm) ==
    LET vi == map.vis[Rank(ms, inm)]
    IN  /\ Len(vi) = Npts(map, inm) + 4
        /\ vi[map.nptsmin[inm] + 2 + 1] = 0

\* the grid of pair p calls the potential service at the points off both
\* axes and nowhere else, and holds on an axis what the curve of the
\* displaced mode holds at that displacement
AxesReused(ms, p) ==
    \A ij \in PairGrid(map, p) :
        LET a == ij[1] - 2 - map.nptsmin[p[1]]
            b == ij[2] - 2 - map.nptsmin[p[2]]
            at == Vtots(cfg, map, ms, p, ij[1], ij[2])
        IN  /\ at.called <=> (a # 0 /\ b # 0)
            /\ a = 0 => at.val = Pot1(cfg, p[2], b)
            /\ b = 0 => at.val = Pot1(cfg, p[1], a)
            /\ a = 0 => at.val = map.vis[Rank(ms, p[2])][b + map.nptsmin[p[2]] + 3]
            /\ (a # 0 /\ b = 0) => at.val = map.vis[Rank(ms, p[1])][a + map.nptsmin[p[1]] + 3]

\* C24: in the 2D mapping of a pair (i, j) the potential service is called
\* once for every point of the (npts_i + 4) x (npts_j + 4) grid off both
\* axes and for no point on an axis; a point on an axis takes the value the
\* 1D curve of the displaced mode holds at that displacement, the curve
\* having npts + 4 entries with the equilibrium value at index nptsmin + 2.
C24_OnAxisReuse ==
    [][(PairStarts /\ MapperAdvance) =>
          LET ms == MapperModes(imm.w2)
              p == Pairs(ms)[map.k]
          IN  /\ CurveShape(ms, p[1]) /\ CurveShape(ms, p[2])
              /\ AxesReused(ms, p)
              /\ inv'.evals - inv.evals = (Npts(map, p[1]) + 3) * (Npts(map, p[2]) + 3)]_vars

C24_Witness ==
    /\ run = "mapping" /\ map.pc = "couple" /\ ~cfg.threebody /\ map.sub = 1
    /\ cfg.skew > 0 /\ map.k = 1
    /\ inv.evals >= PairEvals(map, Pairs(MapperModes(imm.w2))[1])
    /\ \E inm \in DOMAIN map.nptsmin : map.nptsmin[inm] # map.nptsmax[inm]

----------------------------------------------------------------------------
(* VSCFSolver.step: the three-body grids *)

\* vijkgrid[inm][jnm][knm] as the mean field of mode inm uses it
TripleUsed(inm, jnm, knm) ==
    ThreeBody(sol.vijkgrid, Triples(sol.inms), inm, jnm, knm)

\* the grid read from vtriplet.<a>.<b>.<c>.dat, a < b < c the three modes
TriplePersisted(inm, jnm, knm) ==
    LET t == SortedSeq({inm, jnm, knm})
    IN  ThreeBody(sol.vijkgrid, Triples(sol.inms), t[1], t[2], t[3])

\* C25 as stated: with threebody, for every ordered triple of distinct modes
\* (i, j, k) the grid used in the mean field of mode i is the persisted grid
\* of the sorted triple with its axes in the order (i, j, k): it is non-zero
\* in every order when the persisted grid is, so every mode of a triple
\* receives its coupling.
C25_TripleEveryOrder ==
    (SolverDone /\ sol.threebody) =>
        \A inm \in SolverModes, jnm \in SolverModes, knm \in SolverModes :
            (inm # jnm /\ jnm # knm /\ inm # knm) =>
                TripleUsed(inm, jnm, knm) = TriplePersisted(inm, jnm, knm)

----------------------------------------------------------------------------
(* VSCFSolver.step: the states of the manifold *)

\* the tuples of one level below nbasis for each mode of modes.dat
StateTuples == [1..Len(sol.inms) -> 0..(NBasis - 1)]
GroundTuple == [x \in 1..Len(sol.inms) |-> 0]

\* the order in which itertools.product lists the tuples
LexLeq(s, t) ==
    \/ s = t
    \/ \E x \in 1..Len(s) : s[x] < t[x] /\ \A y \in 1..(x - 1) : s[y] = t[y]

Reduced == SolverDone /\ sol.mp2

\* the excitation of mode x alone in state s
OwnExcitation(s, x) == sol.evals[x][s[x]] - sol.evals[x][0]

----------------------------------------------------------------------------
(* The modes the calculators take *)

\* the modes IMF.step goes on to sample, with nz as bind leaves it
ImfTreats == {i \in DOMAIN imm.w : ~(i < imm.nz) /\ ~BelowCutoff(imm.w[i])}

\* the modes PC.step goes on to sample
PcTreats == {i \in DOMAIN imm.w2 : ~(Abs(imm.w2[i]) < W2Cut)}

\* the modes VSCFMapper.step writes to modes.dat
MapperTreats ==
    {MapperModes(imm.w2)[x] : x \in 1..Len(MapperModes(imm.w2))}

\* C27 as stated: for any spectrum and ASR mode IMF, PC and VSCFMapper take
\* the same set of modes: a mode one of them skips is skipped by all.
C27_SameModes ==
    Bound => ImfTreats = PcTreats /\ PcTreats = MapperTreats

----------------------------------------------------------------------------
(* PC.step: where the walks stop *)

\* PC.step has just sampled the mode of the last call
PcSampled == mode = "pc" /\ call.step /\ call.s \in calc.treated

\* the walk of direction sign, which broke at counter k, broke at the first
\* multiple of the step where the potential less v0 is above
\* nmevib * fnmrms * 0.75, fnmrms the fraction the mover was configured with
StopsAtFirstAbove(s, sign, k) ==
    /\ Exceeds(Pot1(cfg, s, sign * k * PcUnit(calc.fnmrms)), calc.fnmrms, calc.fnmrms)
    /\ \A j \in 1..(k - 1) :
          ~Exceeds(Pot1(cfg, s, sign * j * PcUnit(calc.fnmrms)), calc.fnmrms,
                   calc.fnmrms)

\* C28: each walk of PC.step visits the multiples of the step once each and
\* stops at the first displacement whose energy relative to equilibrium, the
\* harmonic part counted once, exceeds nmevib * fnmrms * 0.75 for the
\* configured fnmrms
C28_PcBailout ==
    PcSampled =>
        /\ calc.qlist = <<0, calc.walked[1] * PcUnit(calc.fnmrms),
                           0 - calc.walked[2] * PcUnit(calc.fnmrms)>>
        /\ inv.evals = calc.walked[1] + calc.walked[2]
        /\ StopsAtFirstAbove(call.s, 1, calc.walked[1])
        /\ StopsAtFirstAbove(call.s, 0 - 1, calc.walked[2])

----------------------------------------------------------------------------
(* IMF.step: the modes it has skipped *)

\* IMF.step was called on 0, 1, ..., istep - 1 and has returned from each
SteppedFromZero ==
    /\ mode = "imf" /\ run \in {"bound", "ended", "softexit"} /\ istep > 0
    /\ 0 \in calc.skipped \cup calc.treated

----------------------------------------------------------------------------
(* PC: what terminate leaves behind *)

\* C30: in pc mode the terminate the driver invokes at step 3 * natoms puts
\* out the corrected geometry qpc and the corrected dynamical matrix
C30_PcEmits ==
    (mode = "pc" /\ call.terminate /\ calc.terminated) =>
        PcFiles(cfg.natoms) \subseteq calc.out

====
